---- MODULE Spec2Model ----
(***************************************************************************)
(* Model of kraken-server.py: the nonce source, the request signer, the    *)
(* public GET / private POST clients with their envelope handling, and the *)
(* seventeen tool operations, run by concurrent callers of the host.       *)
(***************************************************************************)
EXTENDS Integers, Sequences, FiniteSets, TLC

(***************************************************************************)
(* Bounds of the model.                                                    *)
(***************************************************************************)
\* Largest millisecond clock reading; the clock starts one reading below.
MaxClock == 10
\* Total number of tool invocations the host starts.
MaxCalls == 2

\* The clock readings: from one digit to two.
ClockReadings == 9..MaxClock
Procs == {1, 2}

(***************************************************************************)
(* Python values.  A value is its type and the characters of str(value);   *)
(* a string is a sequence of one-character strings.                        *)
(***************************************************************************)
PyStr(chars) == [ty |-> "str", v |-> chars]
None == [ty |-> "NoneType", v |-> <<"N", "o", "n", "e">>]
True == [ty |-> "bool", v |-> <<"T", "r", "u", "e">>]
False == [ty |-> "bool", v |-> <<"F", "a", "l", "s", "e">>]
PyBoolOf(b) == IF b THEN True ELSE False
\* A parameter the caller did not pass (the default applies).
Omitted == [ty |-> "omitted", v |-> <<>>]

Digit(d) == CASE d = 0 -> "0" [] d = 1 -> "1" [] d = 2 -> "2" [] d = 3 -> "3"
              [] d = 4 -> "4" [] d = 5 -> "5" [] d = 6 -> "6" [] d = 7 -> "7"
              [] d = 8 -> "8" [] d = 9 -> "9"

RECURSIVE Digits(_)
\* str(n) of a non-negative int: its decimal digits.
Digits(n) == IF n < 10 THEN <<Digit(n)>> ELSE Digits(n \div 10) \o <<Digit(n % 10)>>

DigitVal(c) == CHOOSE d \in 0..9 : Digit(d) = c

RECURSIVE NumOf(_)
\* int(s) of a digit string (how the exchange reads a nonce).
NumOf(chars) == IF chars = <<>> THEN 0
                ELSE 10 * NumOf(SubSeq(chars, 1, Len(chars) - 1)) + DigitVal(chars[Len(chars)])

PyInt(n) == [ty |-> "int", v |-> Digits(n)]
PyFloat(chars) == [ty |-> "float", v |-> chars]

\* Python truthiness: `not x`, `if x`, `any([...])`, `a or b`.
Truthy(x) == CASE x.ty = "NoneType" -> FALSE
               [] x.ty = "omitted" -> FALSE
               [] x.ty = "str" -> x.v # <<>>
               [] x.ty = "bool" -> x = True
               [] x.ty = "int" -> x.v # <<"0">>
               [] x.ty = "float" -> x.v # <<"0", ".", "0">>

\* str(x)
str(x) == PyStr(x.v)
\* int(x) of an int or a bool
int(x) == IF x.ty = "bool" THEN (IF x = True THEN PyInt(1) ELSE PyInt(0)) ELSE [ty |-> "int", v |-> x.v]
\* bool(x)
bool(x) == PyBoolOf(Truthy(x))

\* A parameter bound to its default when the caller omitted it.
Bind(x, default) == IF x = Omitted THEN default ELSE x

(***************************************************************************)
(* Ordered dicts: a sequence of <<key, value>> in insertion order.         *)
(***************************************************************************)
HasKey(d, k) == \E i \in 1..Len(d) : d[i][1] = k
Get(d, k) == d[CHOOSE i \in 1..Len(d) : d[i][1] = k][2]
Put(d, k, val) == IF HasKey(d, k)
                  THEN [i \in 1..Len(d) |-> IF d[i][1] = k THEN <<k, val>> ELSE d[i]]
                  ELSE Append(d, <<k, val>>)
\* `if x is not None: d[k] = f(x)`
PutIfNotNone(d, k, x, val) == IF x # None THEN Put(d, k, val) ELSE d

(***************************************************************************)
(* Paths and messages of the source.                                       *)
(***************************************************************************)
TIME_PATH == "/0/public/Time"
SYSTEM_STATUS_PATH == "/0/public/SystemStatus"
ASSETS_PATH == "/0/public/Assets"
ASSET_PAIRS_PATH == "/0/public/AssetPairs"
TICKER_PATH == "/0/public/Ticker"
OHLC_PATH == "/0/public/OHLC"
DEPTH_PATH == "/0/public/Depth"
TRADES_PATH == "/0/public/Trades"
SPREAD_PATH == "/0/public/Spread"
ADD_ORDER_PATH == "/0/private/AddOrder"
CANCEL_ORDER_PATH == "/0/private/CancelOrder"
OPEN_ORDERS_PATH == "/0/private/OpenOrders"
AMEND_ORDER_PATH == "/0/private/AmendOrder"
CANCEL_ALL_AFTER_PATH == "/0/private/CancelAllOrdersAfter"
BALANCE_PATH == "/0/private/Balance"
CLOSED_orders_PATH == "/0/private/ClosedOrders"
TRADES_HISTORY_PATH == "/0/private/TradesHistory"

MissingKeysMsg == <<"Missing KRAKEN_API_KEY / KRAKEN_API_SECRET env vars.">>
NoIdentifierMsg == <<"Provide order_id or cl_ord_id.">>
NoAmendFieldMsg == <<"Provide at least one field to amend.">>
MissingResultMsg == <<"Kraken API response missing 'result' key.">>

(***************************************************************************)
(* Outcomes of a call: a returned value or a raised exception.             *)
(***************************************************************************)
Returned(val) == [kind |-> "return", exc |-> "", msg |-> <<>>, val |-> val]
Raised(exc, msg) == [kind |-> "raise", exc |-> exc, msg |-> msg, val |-> ""]
Pending == [kind |-> "pending", exc |-> "", msg |-> <<>>, val |-> ""]

\* class KrakenError(RuntimeError)
KrakenError(msg) == Raised("KrakenError", msg)

(***************************************************************************)
(* urllib.parse.urlencode and the signer.                                  *)
(***************************************************************************)
\* quote_plus of one character: unreserved characters stay, a space becomes
\* "+", anything else is percent-encoded.
QuoteChar(c) == CASE c = " " -> <<"+">>
                  [] c = "/" -> <<"%", "2", "F">>
                  [] c = "," -> <<"%", "2", "C">>
                  [] c = ":" -> <<"%", "3", "A">>
                  [] c = "=" -> <<"%", "3", "D">>
                  [] c = "&" -> <<"%", "2", "6">>
                  [] OTHER -> <<c>>

RECURSIVE QuotePlus(_)
QuotePlus(chars) == IF chars = <<>> THEN <<>>
                    ELSE QuoteChar(Head(chars)) \o QuotePlus(Tail(chars))

RECURSIVE urlencode(_)
\* key=value pairs joined by "&", each value through str() and quote_plus;
\* a key is one token (its characters are all unreserved).
urlencode(d) == IF d = <<>> THEN <<>>
                ELSE LET first == <<d[1][1], "=">> \o QuotePlus(str(d[1][2]).v)
                     IN IF Len(d) = 1 THEN first
                        ELSE first \o <<"&">> \o urlencode(Tail(d))

\* base64.b64decode accepts a string whose length is a multiple of four.
B64DecodeOk(secret) == secret.ty = "str" /\ Len(secret.v) % 4 = 0
b64decode(secret) == <<"b64decode", secret.v>>
sha256(bytes) == <<"sha256", bytes>>
hmac_sha512(key, message) == <<"hmac-sha512", key, message>>
b64encode(bytes) == <<"b64encode", bytes>>

Reverse(d) == [i \in 1..Len(d) |-> d[Len(d) + 1 - i]]

\* _sign returning a body serialized a second time, in another field order.
_sign_reserialized(url_path, payload, secret) ==
    LET postdata == urlencode(payload)
        encoded == str(Get(payload, "nonce")).v \o postdata
        message == <<url_path, sha256(encoded)>>
        mac == hmac_sha512(b64decode(secret), message)
    IN [sig |-> b64encode(mac), postdata |-> urlencode(Reverse(payload))]

\* _sign(url_path, payload): the signature and the serialized body.
_sign(url_path, payload, secret) ==
    LET postdata == urlencode(payload)
        encoded == str(Get(payload, "nonce")).v \o postdata
        message == <<url_path, sha256(encoded)>>
        mac == hmac_sha512(b64decode(secret), message)
    IN [sig |-> b64encode(mac), postdata |-> postdata]

\* _require_keys with `and` for `or`: raises only when both are missing.
_require_keys_both(key, secret) == ~Truthy(key) /\ ~Truthy(secret)

\* _require_keys(): TRUE when it raises.
_require_keys(key, secret) == ~Truthy(key) \/ ~Truthy(secret)

\* _nonce(): the millisecond clock reading as a string.
_nonce(now) == PyStr(Digits(now))


(***************************************************************************)
(* Sample strings of the callers.                                          *)
(***************************************************************************)
EmptyStr == PyStr(<<>>)
PAIR == PyStr(<<"X", "/", "U">>)
PAIRS == PyStr(<<"X", ",", "E">>)
BUY == PyStr(<<"b", "u", "y">>)
LIMIT == PyStr(<<"l", "i", "m", "i", "t">>)
IOC == PyStr(<<"I", "O", "C">>)
BOTH == PyStr(<<"b", "o", "t", "h">>)
ALL == PyStr(<<"a", "l", "l">>)
INFO == PyStr(<<"f", "e", "e", "s">>)
PRICE == PyStr(<<"1", ".", "5">>)
TXID == PyStr(<<"O", "1">>)
CLID == PyStr(<<"c", "1">>)

\* Values of the environment variables: unset, empty, set.
KEY == PyStr(<<"k", "e", "y">>)
\* "c2Vj" decodes; "c2V" has incorrect padding.
SECRET == PyStr(<<"c", "2", "V", "j">>)
BADSECRET == PyStr(<<"c", "2", "V">>)
\* <<KRAKEN_API_KEY, KRAKEN_API_SECRET>> as the environment may hold them.
Environments == { <<KEY, SECRET>>, <<None, SECRET>>, <<KEY, EmptyStr>>, <<KEY, BADSECRET>> }

(***************************************************************************)
(* Payload construction of the private operations.                         *)
(***************************************************************************)
\* add_order with `validate: bool = False` as the default.
add_order_data_live(kw, nonce) ==
    LET ordertype == Bind(kw.ordertype, LIMIT)
        volume == Bind(kw.volume, PyFloat(<<"0", ".", "0">>))
        price == Bind(kw.price, None)
        price2 == Bind(kw.price2, None)
        timeinforce == Bind(kw.timeinforce, None)
        userref == Bind(kw.userref, None)
        cl_ord_id == Bind(kw.cl_ord_id, None)
        validate == Bind(kw.validate, False)
        d0 == << <<"nonce", nonce>>, <<"pair", kw.pair>>, <<"type", kw.side>>,
                 <<"ordertype", ordertype>>, <<"volume", str(volume)>> >>
        d1 == PutIfNotNone(d0, "price", price, str(price))
        d2 == PutIfNotNone(d1, "price2", price2, str(price2))
        d3 == PutIfNotNone(d2, "timeinforce", timeinforce, timeinforce)
        d4 == PutIfNotNone(d3, "userref", userref, int(userref))
        d5 == PutIfNotNone(d4, "cl_ord_id", cl_ord_id, cl_ord_id)
    IN IF Truthy(validate) THEN Put(d5, "validate", True) ELSE d5

add_order_data(kw, nonce) ==
    LET ordertype == Bind(kw.ordertype, LIMIT)
        volume == Bind(kw.volume, PyFloat(<<"0", ".", "0">>))
        price == Bind(kw.price, None)
        price2 == Bind(kw.price2, None)
        timeinforce == Bind(kw.timeinforce, None)
        userref == Bind(kw.userref, None)
        cl_ord_id == Bind(kw.cl_ord_id, None)
        validate == Bind(kw.validate, True)
        d0 == << <<"nonce", nonce>>, <<"pair", kw.pair>>, <<"type", kw.side>>,
                 <<"ordertype", ordertype>>, <<"volume", str(volume)>> >>
        d1 == PutIfNotNone(d0, "price", price, str(price))
        d2 == PutIfNotNone(d1, "price2", price2, str(price2))
        d3 == PutIfNotNone(d2, "timeinforce", timeinforce, timeinforce)
        d4 == PutIfNotNone(d3, "userref", userref, int(userref))
        d5 == PutIfNotNone(d4, "cl_ord_id", cl_ord_id, cl_ord_id)
    IN IF Truthy(validate) THEN Put(d5, "validate", True) ELSE d5

cancel_order_data(kw, nonce) ==
    << <<"nonce", nonce>>, <<"txid", kw.txid_or_userref>> >>

open_orders_data(kw, nonce) ==
    LET userref == Bind(kw.userref, None)
        trades == Bind(kw.trades, False)
        d0 == << <<"nonce", nonce>>, <<"trades", bool(trades)>> >>
    IN PutIfNotNone(d0, "userref", userref, int(userref))

\* amend_order without its second pre-flight check.
amend_order_check_identifier_only(kw) ==
    LET order_id == Bind(kw.order_id, None)
        cl_ord_id == Bind(kw.cl_ord_id, None)
    IN IF ~(Truthy(order_id) \/ Truthy(cl_ord_id)) THEN NoIdentifierMsg ELSE <<>>

\* The two pre-flight checks of amend_order: the message raised, or <<>>.
amend_order_check(kw) ==
    LET order_id == Bind(kw.order_id, None)
        cl_ord_id == Bind(kw.cl_ord_id, None)
        order_qty == Bind(kw.order_qty, None)
        limit_price == Bind(kw.limit_price, None)
        trigger_price == Bind(kw.trigger_price, None)
        display_qty == Bind(kw.display_qty, None)
    IN IF ~(Truthy(order_id) \/ Truthy(cl_ord_id)) THEN NoIdentifierMsg
       ELSE IF ~(\E x \in {order_qty, limit_price, trigger_price, display_qty} : Truthy(x))
            THEN NoAmendFieldMsg
            ELSE <<>>

amend_order_data(kw, nonce) ==
    LET order_id == Bind(kw.order_id, None)
        cl_ord_id == Bind(kw.cl_ord_id, None)
        order_qty == Bind(kw.order_qty, None)
        limit_price == Bind(kw.limit_price, None)
        trigger_price == Bind(kw.trigger_price, None)
        display_qty == Bind(kw.display_qty, None)
        post_only == Bind(kw.post_only, None)
        d0 == << <<"nonce", nonce>> >>
        d1 == PutIfNotNone(d0, "order_id", order_id, order_id)
        d2 == PutIfNotNone(d1, "cl_ord_id", cl_ord_id, cl_ord_id)
        d3 == PutIfNotNone(d2, "order_qty", order_qty, str(order_qty))
        d4 == PutIfNotNone(d3, "limit_price", limit_price, str(limit_price))
        d5 == PutIfNotNone(d4, "trigger_price", trigger_price, str(trigger_price))
        d6 == PutIfNotNone(d5, "display_qty", display_qty, str(display_qty))
    IN PutIfNotNone(d6, "post_only", post_only, bool(post_only))

cancel_all_orders_after_data(kw, nonce) ==
    << <<"nonce", nonce>>, <<"timeout", int(kw.timeout_seconds)>> >>

account_balance_data(kw, nonce) ==
    << <<"nonce", nonce>> >>

closed_orders_data(kw, nonce) ==
    LET trades == Bind(kw.trades, False)
        userref == Bind(kw.userref, None)
        cl_ord_id == Bind(kw.cl_ord_id, None)
        start == Bind(kw.start, None)
        end == Bind(kw.end, None)
        ofs == Bind(kw.ofs, None)
        closetime == Bind(kw.closetime, BOTH)
        consolidate_taker == Bind(kw.consolidate_taker, None)
        without_count == Bind(kw.without_count, False)
        rebase_multiplier == Bind(kw.rebase_multiplier, None)
        d0 == << <<"nonce", nonce>>, <<"trades", bool(trades)>>,
                 <<"closetime", closetime>>, <<"without_count", bool(without_count)>> >>
        d1 == PutIfNotNone(d0, "userref", userref, int(userref))
        d2 == PutIfNotNone(d1, "cl_ord_id", cl_ord_id, cl_ord_id)
        d3 == PutIfNotNone(d2, "start", start, str(start))
        d4 == PutIfNotNone(d3, "end", end, str(end))
        d5 == PutIfNotNone(d4, "ofs", ofs, int(ofs))
        d6 == PutIfNotNone(d5, "consolidate_taker", consolidate_taker, bool(consolidate_taker))
    IN PutIfNotNone(d6, "rebase_multiplier", rebase_multiplier, rebase_multiplier)

trades_history_data(kw, nonce) ==
    LET type == Bind(kw.type, ALL)
        start == Bind(kw.start, None)
        end == Bind(kw.end, None)
        ofs == Bind(kw.ofs, None)
        consolidate_taker == Bind(kw.consolidate_taker, None)
        ledgers == Bind(kw.ledgers, None)
        rebase_multiplier == Bind(kw.rebase_multiplier, None)
        d0 == << <<"nonce", nonce>>, <<"type", type>> >>
        d1 == PutIfNotNone(d0, "start", start, str(start))
        d2 == PutIfNotNone(d1, "end", end, str(end))
        d3 == PutIfNotNone(d2, "ofs", ofs, int(ofs))
        d4 == PutIfNotNone(d3, "consolidate_taker", consolidate_taker, bool(consolidate_taker))
        d5 == PutIfNotNone(d4, "ledgers", ledgers, bool(ledgers))
    IN PutIfNotNone(d5, "rebase_multiplier", rebase_multiplier, rebase_multiplier)

(***************************************************************************)
(* Query construction of the public operations.                            *)
(***************************************************************************)
asset_info_params(kw) ==
    LET assets == Bind(kw.assets, None)
        aclass == Bind(kw.aclass, None)
    IN PutIfNotNone(PutIfNotNone(<<>>, "asset", assets, assets), "aclass", aclass, aclass)

tradable_asset_pairs_params(kw) ==
    LET pairs == Bind(kw.pairs, None)
        info == Bind(kw.info, None)
    IN PutIfNotNone(PutIfNotNone(<<>>, "pair", pairs, pairs), "info", info, info)

ticker_params(kw) ==
    LET pairs == Bind(kw.pairs, None)
    IN IF Truthy(pairs) THEN << <<"pair", pairs>> >> ELSE <<>>

ohlc_params(kw) ==
    LET interval == Bind(kw.interval, PyInt(1))
        since == Bind(kw.since, None)
        d0 == << <<"pair", kw.pair>>, <<"interval", int(interval)>> >>
    IN PutIfNotNone(d0, "since", since, int(since))

order_book_params(kw) ==
    LET count == Bind(kw.count, None)
    IN PutIfNotNone(<< <<"pair", kw.pair>> >>, "count", count, int(count))

recent_trades_params(kw) ==
    LET since == Bind(kw.since, None)
    IN PutIfNotNone(<< <<"pair", kw.pair>> >>, "since", since, int(since))

recent_spreads_params(kw) ==
    LET since == Bind(kw.since, None)
    IN PutIfNotNone(<< <<"pair", kw.pair>> >>, "since", since, int(since))

\* requests.get(url, params=params or {}): requests leaves out the keys whose
\* value is None and url-encodes the others.
RequestsQuery(params) == urlencode(SelectSeq(params, LAMBDA kv : kv[2] # None))


(***************************************************************************)
(* Arguments the callers pass (Omitted: the parameter is not passed).      *)
(***************************************************************************)
AddOrderInputs ==
    { [pair |-> PAIR, side |-> BUY, ordertype |-> Omitted, volume |-> PyFloat(<<"1", ".", "5">>),
       price |-> pr, price2 |-> Omitted, timeinforce |-> Omitted, userref |-> Omitted,
       cl_ord_id |-> Omitted, validate |-> va] :
      pr \in {Omitted}, va \in {Omitted, True, False} }
    \cup { [pair |-> PAIR, side |-> BUY, ordertype |-> Omitted, volume |-> PyFloat(<<"1", ".", "5">>),
            price |-> EmptyStr, price2 |-> Omitted, timeinforce |-> Omitted, userref |-> Omitted,
            cl_ord_id |-> Omitted, validate |-> False] }
    \cup { [pair |-> PAIR, side |-> BUY, ordertype |-> LIMIT, volume |-> Omitted,
            price |-> PRICE, price2 |-> PRICE, timeinforce |-> IOC, userref |-> PyInt(7),
            cl_ord_id |-> CLID, validate |-> Omitted] }

CancelOrderInputs == { [txid_or_userref |-> t] : t \in {TXID} }

OpenOrdersInputs == { [userref |-> Omitted, trades |-> Omitted], [userref |-> PyInt(7), trades |-> True] }

AmendOrderInputs ==
    { [order_id |-> id[1], cl_ord_id |-> id[2], order_qty |-> a[1], limit_price |-> a[2],
       trigger_price |-> a[3], display_qty |-> a[4], post_only |-> a[5]] :
      id \in { <<Omitted, Omitted>>, <<EmptyStr, Omitted>>, <<TXID, Omitted>>, <<EmptyStr, CLID>> },
      a \in { <<Omitted, Omitted, Omitted, Omitted, True>>,
              <<EmptyStr, Omitted, Omitted, Omitted, Omitted>>,
              <<EmptyStr, PRICE, Omitted, Omitted, Omitted>>,
              <<PRICE, Omitted, PRICE, PRICE, False>> } }

CancelAllOrdersAfterInputs == { [timeout_seconds |-> t] : t \in {PyInt(0), PyInt(60)} }

AccountBalanceInputs == { [none |-> Omitted] }

ClosedOrdersInputs ==
    { [trades |-> Omitted, userref |-> Omitted, cl_ord_id |-> Omitted, start |-> Omitted,
       end |-> Omitted, ofs |-> Omitted, closetime |-> Omitted, consolidate_taker |-> Omitted,
       without_count |-> Omitted, rebase_multiplier |-> Omitted],
      [trades |-> True, userref |-> PyInt(7), cl_ord_id |-> CLID, start |-> PyInt(5),
       end |-> TXID, ofs |-> PyInt(50), closetime |-> BOTH, consolidate_taker |-> False,
       without_count |-> True, rebase_multiplier |-> EmptyStr] }

TradesHistoryInputs ==
    { [type |-> Omitted, start |-> Omitted, end |-> Omitted, ofs |-> Omitted,
       consolidate_taker |-> Omitted, ledgers |-> Omitted, rebase_multiplier |-> Omitted],
      [type |-> ALL, start |-> TXID, end |-> PyInt(5), ofs |-> PyInt(50),
       consolidate_taker |-> True, ledgers |-> False, rebase_multiplier |-> PRICE] }

NoInputs == { [none |-> Omitted] }

AssetInfoInputs == { [assets |-> Omitted, aclass |-> Omitted], [assets |-> EmptyStr, aclass |-> Omitted],
                     [assets |-> PAIRS, aclass |-> INFO] }

TradableAssetPairsInputs == { [pairs |-> Omitted, info |-> Omitted], [pairs |-> PAIRS, info |-> INFO] }

TickerInputs == { [pairs |-> a] : a \in {Omitted, EmptyStr, PAIRS} }

OhlcInputs == { [pair |-> PAIR, interval |-> Omitted, since |-> Omitted],
                [pair |-> PAIR, interval |-> PyInt(5), since |-> PyInt(7)] }

OrderBookInputs == { [pair |-> PAIR, count |-> c] : c \in {Omitted, PyInt(10)} }

RecentInputs == { [pair |-> PAIR, since |-> x] : x \in {Omitted, PyInt(7)} }

(***************************************************************************)
(* Responses of the transport and their handling.                          *)
(***************************************************************************)
\* Decoded JSON mappings: `error` absent, empty or populated; `result`
\* absent, null or a mapping.
ErrorLists == {<<>>, <<"EOrder:Insufficient funds", "EService:Busy">>}
ResultValues == {"null", "{unixtime: 1700000000}"}
Envelopes == { [error |-> e, result |-> r] : e \in ErrorLists, r \in ResultValues }
             \cup { [error |-> e] : e \in ErrorLists }
             \cup { [result |-> "{unixtime: 1700000000}"] }

\* fail: the exception requests.get/post or raise_for_status raises ("" when
\* none); j: the decoded JSON.
Responses == { [fail |-> f, j |-> <<>>] :
               f \in {"requests.Timeout", "requests.HTTPError"} }
             \cup { [fail |-> "", j |-> j] : j \in Envelopes }
NoResponse == [fail |-> "none", j |-> <<>>]

RECURSIVE Join(_)
\* "; ".join(errors)
Join(errors) == IF Len(errors) = 1 THEN <<errors[1]>>
                ELSE <<errors[1], "; ">> \o Join(Tail(errors))

\* j.get("error") is truthy
GetError(j) == "error" \in DOMAIN j /\ j.error # <<>>

\* _public_get from the response on: the outcome of the call.
_public_get_result(r) ==
    IF r.fail # "" THEN Raised(r.fail, <<>>)
    ELSE IF GetError(r.j) THEN KrakenError(Join(r.j.error))
    ELSE IF "result" \notin DOMAIN r.j THEN KrakenError(MissingResultMsg)
    ELSE Returned(r.j.result)

\* _private_post looking for `result` before it looks at `error`.
_private_post_result_first(r) ==
    IF r.fail # "" THEN Raised(r.fail, <<>>)
    ELSE IF "result" \in DOMAIN r.j THEN Returned(r.j.result)
    ELSE IF GetError(r.j) THEN KrakenError(Join(r.j.error))
    ELSE KrakenError(MissingResultMsg)

\* _private_post from the response on: the outcome of the call.
_private_post_result(r) ==
    IF r.fail # "" THEN Raised(r.fail, <<>>)
    ELSE IF GetError(r.j) THEN KrakenError(Join(r.j.error))
    ELSE IF "result" \notin DOMAIN r.j THEN KrakenError(MissingResultMsg)
    ELSE Returned(r.j.result)

\* _private_post sending the request again after a timeout.
_private_post_retry(outcome) == IF outcome.exc = "requests.Timeout" THEN "built" ELSE "done"

\* Where _private_post goes once requests.post has answered or raised: every
\* path returns or raises out of the function.
_private_post_after(outcome) == "done"

(***************************************************************************)
(* State.                                                                  *)
(***************************************************************************)
VARIABLES
    API_KEY,      \* os.getenv("KRAKEN_API_KEY")
    API_SECRET,   \* os.getenv("KRAKEN_API_SECRET")
    clock,        \* int(time.time() * 1000)
    pc,           \* per caller: "idle", "built", "sent", "done"
    op,           \* per caller: the operation invoked
    kw,           \* per caller: the arguments passed
    url_path,     \* per caller: the path handed to the client
    data,         \* per caller: the payload / params dict
    sent,         \* per caller: the request the transport was given
    resp,         \* per caller: the response the transport gave back
    outcome,      \* per caller: what the operation returned or raised
    httpCalls,    \* per caller: requests.get/post calls of this invocation
    maxDrawn,     \* the greatest nonce _nonce() has returned so far (0: none)
    maxPosted,    \* the greatest nonce a POST has carried so far (0: none)
    started       \* invocations started so far

vars == <<API_KEY, API_SECRET, clock, pc, op, kw, url_path, data, sent, resp,
          outcome, httpCalls, maxDrawn, maxPosted, started>>

Max(a, b) == IF a >= b THEN a ELSE b

NoArgs == <<>>
NoRequest == [method |-> "", path |-> "", wire |-> <<>>, key |-> None, sig |-> <<>>]
\* A request that was answered: only its method is remembered.
Answered(method) == [NoRequest EXCEPT !.method = method]

Init ==
    /\ \E env \in Environments : API_KEY = env[1] /\ API_SECRET = env[2]
    /\ clock = 9
    /\ pc = [p \in Procs |-> "idle"]
    /\ op = [p \in Procs |-> ""]
    /\ kw = [p \in Procs |-> NoArgs]
    /\ url_path = [p \in Procs |-> ""]
    /\ data = [p \in Procs |-> <<>>]
    /\ sent = [p \in Procs |-> NoRequest]
    /\ resp = [p \in Procs |-> NoResponse]
    /\ outcome = [p \in Procs |-> Pending]
    /\ httpCalls = [p \in Procs |-> 0]
    /\ maxDrawn = 0
    /\ maxPosted = 0
    /\ started = 0

(***************************************************************************)
(* Steps shared by the operations.                                         *)
(***************************************************************************)
\* A private operation draws its nonce and builds its payload, then calls
\* _private_post.
BuildPrivate(p, name, args, path, d) ==
    /\ pc[p] = "idle"
    /\ started < MaxCalls
    /\ started' = started + 1
    /\ op' = [op EXCEPT ![p] = name]
    /\ kw' = [kw EXCEPT ![p] = args]
    /\ url_path' = [url_path EXCEPT ![p] = path]
    /\ data' = [data EXCEPT ![p] = d]
    /\ maxDrawn' = Max(maxDrawn, NumOf(Get(d, "nonce").v))
    /\ pc' = [pc EXCEPT ![p] = "built"]
    /\ UNCHANGED <<API_KEY, API_SECRET, clock, sent, resp, outcome, httpCalls, maxPosted>>

\* A public operation builds its params and _public_get issues the GET.
GetPublic(p, name, args, path, params) ==
    /\ pc[p] = "idle"
    /\ started < MaxCalls
    /\ started' = started + 1
    /\ op' = [op EXCEPT ![p] = name]
    /\ kw' = [kw EXCEPT ![p] = args]
    /\ url_path' = [url_path EXCEPT ![p] = path]
    /\ data' = [data EXCEPT ![p] = params]
    /\ sent' = [sent EXCEPT ![p] = [method |-> "GET", path |-> path,
                                    wire |-> RequestsQuery(params), key |-> None, sig |-> <<>>]]
    /\ httpCalls' = [httpCalls EXCEPT ![p] = @ + 1]
    /\ pc' = [pc EXCEPT ![p] = "sent"]
    /\ UNCHANGED <<API_KEY, API_SECRET, clock, resp, outcome, maxDrawn, maxPosted>>

\* The operation ends with `o` before any client is called or inside
\* _private_post before the request.
Finish(p, o) ==
    /\ outcome' = [outcome EXCEPT ![p] = o]
    /\ pc' = [pc EXCEPT ![p] = "done"]

\* The locals of the call are gone once it has raised.
DropFrame(p) ==
    /\ kw' = [kw EXCEPT ![p] = NoArgs]
    /\ url_path' = [url_path EXCEPT ![p] = ""]
    /\ data' = [data EXCEPT ![p] = <<>>]

\* _private_post up to requests.post: the key check, the signature, the POST.
PrivatePostSend(p) ==
    /\ pc[p] = "built"
    /\ IF _require_keys(API_KEY, API_SECRET)
       THEN /\ Finish(p, KrakenError(MissingKeysMsg))
            /\ DropFrame(p)
            /\ UNCHANGED <<sent, httpCalls, maxPosted>>
       ELSE IF ~B64DecodeOk(API_SECRET)
       THEN /\ Finish(p, Raised("binascii.Error", <<"Incorrect padding">>))
            /\ DropFrame(p)
            /\ UNCHANGED <<sent, httpCalls, maxPosted>>
       ELSE LET s == _sign(url_path[p], data[p], API_SECRET)
            IN /\ sent' = [sent EXCEPT ![p] = [method |-> "POST", path |-> url_path[p],
                                               wire |-> s.postdata, key |-> API_KEY, sig |-> s.sig]]
               /\ httpCalls' = [httpCalls EXCEPT ![p] = @ + 1]
               /\ maxPosted' = Max(maxPosted, NumOf(Get(data[p], "nonce").v))
               /\ pc' = [pc EXCEPT ![p] = "sent"]
               /\ UNCHANGED <<outcome, kw, url_path, data>>
    /\ UNCHANGED <<API_KEY, API_SECRET, clock, op, resp, maxDrawn, started>>

\* _private_post from requests.post returning or raising to the end.
PrivatePostRecv(p) ==
    /\ pc[p] = "sent"
    /\ sent[p].method = "POST"
    /\ \E r \in Responses :
         LET o == _private_post_result(r)
             next == _private_post_after(o)
         IN /\ resp' = [resp EXCEPT ![p] = r]
            /\ outcome' = [outcome EXCEPT ![p] = o]
            /\ pc' = [pc EXCEPT ![p] = next]
            /\ kw' = [kw EXCEPT ![p] = IF next = "done" THEN NoArgs ELSE @]
            /\ data' = [data EXCEPT ![p] = IF next = "done" THEN <<>> ELSE @]
            /\ op' = [op EXCEPT ![p] = IF next = "done" THEN "" ELSE @]
            /\ url_path' = [url_path EXCEPT ![p] = IF next = "done" THEN "" ELSE @]
            /\ sent' = [sent EXCEPT ![p] = Answered("POST")]
    /\ UNCHANGED <<API_KEY, API_SECRET, clock, httpCalls, maxDrawn, maxPosted, started>>

\* _public_get from requests.get returning or raising to the end.
PublicGetRecv(p) ==
    /\ pc[p] = "sent"
    /\ sent[p].method = "GET"
    /\ \E r \in Responses :
         /\ resp' = [resp EXCEPT ![p] = r]
         /\ outcome' = [outcome EXCEPT ![p] = _public_get_result(r)]
    /\ pc' = [pc EXCEPT ![p] = "done"]
    /\ kw' = [kw EXCEPT ![p] = NoArgs]
    /\ data' = [data EXCEPT ![p] = <<>>]
    /\ op' = [op EXCEPT ![p] = ""]
    /\ url_path' = [url_path EXCEPT ![p] = ""]
    /\ sent' = [sent EXCEPT ![p] = Answered("GET")]
    /\ UNCHANGED <<API_KEY, API_SECRET, clock, httpCalls, maxDrawn, maxPosted, started>>

\* The host takes the outcome; the caller is free for another invocation.
Return(p) ==
    /\ pc[p] = "done"
    /\ pc' = [pc EXCEPT ![p] = "idle"]
    /\ op' = [op EXCEPT ![p] = ""]
    /\ kw' = [kw EXCEPT ![p] = NoArgs]
    /\ url_path' = [url_path EXCEPT ![p] = ""]
    /\ data' = [data EXCEPT ![p] = <<>>]
    /\ resp' = [resp EXCEPT ![p] = NoResponse]
    /\ sent' = [sent EXCEPT ![p] = NoRequest]
    /\ outcome' = [outcome EXCEPT ![p] = Pending]
    /\ httpCalls' = [httpCalls EXCEPT ![p] = 0]
    /\ UNCHANGED <<API_KEY, API_SECRET, clock, maxDrawn, maxPosted, started>>

\* The wall clock advances by a millisecond.
Tick ==
    /\ clock + 1 \in ClockReadings
    /\ clock' = clock + 1
    /\ UNCHANGED <<API_KEY, API_SECRET, pc, op, kw, url_path, data, sent, resp,
                   outcome, httpCalls, maxDrawn, maxPosted, started>>

\* The wall clock is set back (time.time() is not monotonic).
ClockBack ==
    /\ clock - 1 \in ClockReadings
    /\ clock' = clock - 1
    /\ UNCHANGED <<API_KEY, API_SECRET, pc, op, kw, url_path, data, sent, resp,
                   outcome, httpCalls, maxDrawn, maxPosted, started>>

(***************************************************************************)
(* The operations.                                                         *)
(***************************************************************************)
add_order(p) ==
    \E a \in AddOrderInputs :
        BuildPrivate(p, "add_order", a, ADD_ORDER_PATH, add_order_data(a, _nonce(clock)))

cancel_order(p) ==
    \E a \in CancelOrderInputs :
        BuildPrivate(p, "cancel_order", a, CANCEL_ORDER_PATH, cancel_order_data(a, _nonce(clock)))

open_orders(p) ==
    \E a \in OpenOrdersInputs :
        BuildPrivate(p, "open_orders", a, OPEN_ORDERS_PATH, open_orders_data(a, _nonce(clock)))

amend_order(p) ==
    \E a \in AmendOrderInputs :
        IF amend_order_check(a) # <<>>
        THEN /\ pc[p] = "idle"
             /\ started < MaxCalls
             /\ started' = started + 1
             /\ op' = [op EXCEPT ![p] = "amend_order"]
             /\ kw' = [kw EXCEPT ![p] = a]
             /\ Finish(p, KrakenError(amend_order_check(a)))
             /\ UNCHANGED <<API_KEY, API_SECRET, clock, url_path, data, sent, resp,
                            httpCalls, maxDrawn, maxPosted>>
        ELSE BuildPrivate(p, "amend_order", a, AMEND_ORDER_PATH, amend_order_data(a, _nonce(clock)))

cancel_all_orders_after(p) ==
    \E a \in CancelAllOrdersAfterInputs :
        BuildPrivate(p, "cancel_all_orders_after", a, CANCEL_ALL_AFTER_PATH,
                     cancel_all_orders_after_data(a, _nonce(clock)))

account_balance(p) ==
    \E a \in NoInputs :
        BuildPrivate(p, "account_balance", a, BALANCE_PATH, account_balance_data(a, _nonce(clock)))

closed_orders(p) ==
    \E a \in ClosedOrdersInputs :
        BuildPrivate(p, "closed_orders", a, CLOSED_orders_PATH, closed_orders_data(a, _nonce(clock)))

trades_history(p) ==
    \E a \in TradesHistoryInputs :
        BuildPrivate(p, "trades_history", a, TRADES_HISTORY_PATH, trades_history_data(a, _nonce(clock)))

server_time(p) ==
    \E a \in NoInputs : GetPublic(p, "server_time", a, TIME_PATH, <<>>)

system_status(p) ==
    \E a \in NoInputs : GetPublic(p, "system_status", a, SYSTEM_STATUS_PATH, <<>>)

asset_info(p) ==
    \E a \in AssetInfoInputs : GetPublic(p, "asset_info", a, ASSETS_PATH, asset_info_params(a))

tradable_asset_pairs(p) ==
    \E a \in TradableAssetPairsInputs :
        GetPublic(p, "tradable_asset_pairs", a, ASSET_PAIRS_PATH, tradable_asset_pairs_params(a))

ticker(p) ==
    \E a \in TickerInputs : GetPublic(p, "ticker", a, TICKER_PATH, ticker_params(a))

ohlc(p) ==
    \E a \in OhlcInputs : GetPublic(p, "ohlc", a, OHLC_PATH, ohlc_params(a))

order_book(p) ==
    \E a \in OrderBookInputs : GetPublic(p, "order_book", a, DEPTH_PATH, order_book_params(a))

recent_trades(p) ==
    \E a \in RecentInputs : GetPublic(p, "recent_trades", a, TRADES_PATH, recent_trades_params(a))

recent_spreads(p) ==
    \E a \in RecentInputs : GetPublic(p, "recent_spreads", a, SPREAD_PATH, recent_spreads_params(a))

Next ==
    \/ \E p \in Procs : add_order(p)
    \/ \E p \in Procs : cancel_order(p)
    \/ \E p \in Procs : open_orders(p)
    \/ \E p \in Procs : amend_order(p)
    \/ \E p \in Procs : cancel_all_orders_after(p)
    \/ \E p \in Procs : account_balance(p)
    \/ \E p \in Procs : closed_orders(p)
    \/ \E p \in Procs : trades_history(p)
    \/ \E p \in Procs : server_time(p)
    \/ \E p \in Procs : system_status(p)
    \/ \E p \in Procs : asset_info(p)
    \/ \E p \in Procs : tradable_asset_pairs(p)
    \/ \E p \in Procs : ticker(p)
    \/ \E p \in Procs : ohlc(p)
    \/ \E p \in Procs : order_book(p)
    \/ \E p \in Procs : recent_trades(p)
    \/ \E p \in Procs : recent_spreads(p)
    \/ \E p \in Procs : PrivatePostSend(p)
    \/ \E p \in Procs : PrivatePostRecv(p)
    \/ \E p \in Procs : PublicGetRecv(p)
    \/ \E p \in Procs : Return(p)
    \/ Tick
    \/ ClockBack

Spec == Init /\ [][Next]_vars

TypeOK ==
    /\ clock \in ClockReadings
    /\ started \in 0..MaxCalls
    /\ \A p \in Procs : pc[p] \in {"idle", "built", "sent", "done"}
    /\ \A p \in Procs : httpCalls[p] \in 0..1


(***************************************************************************)
(* Vocabulary of the properties.                                           *)
(***************************************************************************)
PrivateOps == {"add_order", "cancel_order", "open_orders", "amend_order",
               "cancel_all_orders_after", "account_balance", "closed_orders", "trades_history"}

\* The fault taxonomy, read off the exception class and message.
IsConfigurationFault(o) == o.kind = "raise" /\ o.exc = "KrakenError" /\ o.msg = MissingKeysMsg
IsValidationFault(o) == o.kind = "raise" /\ o.exc = "KrakenError"
                        /\ o.msg \in {NoIdentifierMsg, NoAmendFieldMsg}
IsProtocolFault(o) == o.kind = "raise" /\ o.exc = "KrakenError" /\ o.msg = MissingResultMsg
\* An exchange fault whose message is the error strings, in order, "; " between.
IsExchangeFault(o, errors) ==
    /\ o.kind = "raise" /\ o.exc = "KrakenError"
    /\ Len(o.msg) = 2 * Len(errors) - 1
    /\ \A i \in 1..Len(errors) : o.msg[2 * i - 1] = errors[i]
    /\ \A i \in 1..(Len(errors) - 1) : o.msg[2 * i] = "; "

CredentialsMissing == API_KEY \in {None, EmptyStr} \/ API_SECRET \in {None, EmptyStr}

\* A caller-supplied string parameter: passed, not None, not empty.
Supplied(x) == x.ty = "str" /\ x.v # <<>>
HasIdentifier(a) == Supplied(a.order_id) \/ Supplied(a.cl_ord_id)
HasAmendable(a) == Supplied(a.order_qty) \/ Supplied(a.limit_price)
                   \/ Supplied(a.trigger_price) \/ Supplied(a.display_qty)

\* Reading a body or query as the exchange does: fields split at "&", key
\* and value at "=".
FieldStarts(wire) == { i \in 1..Len(wire) : i = 1 \/ wire[i - 1] = "&" }
ValueEnd(wire, i) == IF \E j \in i..Len(wire) : wire[j] = "&"
                     THEN (CHOOSE j \in i..Len(wire) : wire[j] = "&" /\ \A k \in i..(j - 1) : wire[k] # "&") - 1
                     ELSE Len(wire)
\* The value of the field that starts at i (after key and "=").
ValueAt(wire, i) == SubSeq(wire, i + 2, ValueEnd(wire, i))
WireHas(wire, key) == \E i \in FieldStarts(wire) : wire[i] = key
WireValue(wire, key) == ValueAt(wire, CHOOSE i \in FieldStarts(wire) : wire[i] = key)

InFlight(p) == pc[p] = "sent"

(***************************************************************************)
(* Properties.                                                             *)
(***************************************************************************)

\* The nonce a private operation holds in its payload.
NonceOf(d) == NumOf(Get(d, "nonce").v)

\* C1: every draw of a nonce returns a value strictly greater than every
\* value drawn before it, so the nonces are strictly increasing in the order
\* the draws complete.
C1_NoncesStrictlyIncreasing ==
    [][\A p \in Procs : (pc[p] = "idle" /\ pc'[p] = "built") => NonceOf(data'[p]) > maxDrawn]_vars

\* C2: every POST carries a nonce no smaller than the nonce of every POST
\* sent before it: the order of the nonces is the order of sending.
C2_NonceOrderIsSendOrder ==
    [][\A p \in Procs : (pc[p] = "built" /\ pc'[p] = "sent") => NonceOf(data[p]) >= maxPosted]_vars

\* C3 as stated: a private operation called with a credential missing ends
\* with a ConfigurationFault and has made no HTTP call.
C3_MissingKeysConfigurationFault ==
    \A p \in Procs :
        (CredentialsMissing /\ op[p] \in PrivateOps /\ pc[p] = "done")
            => (IsConfigurationFault(outcome[p]) /\ httpCalls[p] = 0)

\* C3 as amended: with a credential missing no private operation ever issues
\* an HTTP request, and it ends with a ConfigurationFault, except amend_order
\* called without an identifier or an amendable field, which ends with its
\* ValidationFault.
C3_MissingKeysNoRequest ==
    CredentialsMissing =>
        /\ maxPosted = 0
        /\ \A p \in Procs :
            /\ sent[p].method # "POST"
            /\ op[p] \in PrivateOps => httpCalls[p] = 0
            /\ (op[p] \in PrivateOps /\ pc[p] = "done") =>
                  \/ IsConfigurationFault(outcome[p])
                  \/ /\ op[p] = "amend_order"
                     /\ IsValidationFault(outcome[p])
                     /\ ~(HasIdentifier(kw[p]) /\ HasAmendable(kw[p]))

C3_Witness ==
    \E p \in Procs : /\ CredentialsMissing
                     /\ op[p] = "add_order" /\ pc[p] = "done"
                     /\ IsConfigurationFault(outcome[p]) /\ httpCalls[p] = 0

\* C4: amend_order goes on to its request only with an identifier and an
\* amendable field supplied; without either it ends with a ValidationFault
\* and no HTTP call, whatever the credentials.
C4_AmendPreflight ==
    \A p \in Procs : op[p] = "amend_order" =>
        /\ (pc[p] \in {"built", "sent"} \/ httpCalls[p] > 0)
              => (HasIdentifier(kw[p]) /\ HasAmendable(kw[p]))
        /\ (kw[p] # NoArgs /\ ~(HasIdentifier(kw[p]) /\ HasAmendable(kw[p])))
              => (pc[p] = "done" /\ IsValidationFault(outcome[p]) /\ httpCalls[p] = 0)
        /\ (pc[p] = "done" /\ kw[p] = NoArgs) => ~IsValidationFault(outcome[p])

C4_Witness ==
    \E p \in Procs : /\ op[p] = "amend_order" /\ pc[p] = "done"
                     /\ ~CredentialsMissing
                     /\ HasIdentifier(kw[p]) /\ ~HasAmendable(kw[p])
                     /\ kw[p].order_qty = EmptyStr
                     /\ IsValidationFault(outcome[p]) /\ httpCalls[p] = 0

\* C5: a decoded envelope with a non-empty `error` list makes either client
\* raise an ExchangeFault carrying the joined error strings, whether `result`
\* is missing, null or populated; no value is returned.
C5_ErrorsRaiseExchangeFault ==
    \A p \in Procs :
        (pc[p] = "done" /\ resp[p].fail = ""
           /\ "error" \in DOMAIN resp[p].j /\ resp[p].j.error # <<>>)
            => IsExchangeFault(outcome[p], resp[p].j.error)

C5_Witness ==
    \E p, q \in Procs :
        /\ pc[p] = "done" /\ sent[p].method = "GET" /\ resp[p].fail = ""
        /\ pc[q] = "done" /\ sent[q].method = "POST" /\ resp[q].fail = ""
        /\ "error" \in DOMAIN resp[p].j /\ resp[p].j.error # <<>>
        /\ "result" \in DOMAIN resp[p].j /\ resp[p].j.result = "null"
        /\ "error" \in DOMAIN resp[q].j /\ resp[q].j.error # <<>>
        /\ "result" \in DOMAIN resp[q].j /\ resp[q].j.result # "null"
        /\ IsExchangeFault(outcome[p], resp[p].j.error)
        /\ IsExchangeFault(outcome[q], resp[q].j.error)

\* C6: a decoded envelope without the `error` key, or with an empty `error`
\* list and no `result`, makes the call fail with a ProtocolFault.
C6_MalformedEnvelopeProtocolFault ==
    \A p \in Procs :
        (pc[p] = "done" /\ resp[p].fail = ""
           /\ \/ "error" \notin DOMAIN resp[p].j
              \/ (resp[p].j.error = <<>> /\ "result" \notin DOMAIN resp[p].j))
            => IsProtocolFault(outcome[p])

\* C7: an AddOrder request carries the validate flag unless the caller
\* passed validate=False: a request without the flag comes only from a call
\* that passed validate=False.
C7_ValidateByDefault ==
    \A p \in Procs :
        (InFlight(p) /\ sent[p].method = "POST" /\ sent[p].path = ADD_ORDER_PATH)
            => /\ kw[p].validate # False => WireHas(sent[p].wire, "validate")
               /\ ~WireHas(sent[p].wire, "validate") => kw[p].validate = False

C7_Witness ==
    \E p \in Procs :
        /\ InFlight(p) /\ sent[p].method = "POST" /\ sent[p].path = ADD_ORDER_PATH
        /\ kw[p].validate = Omitted
        /\ WireHas(sent[p].wire, "validate")
        /\ WireValue(sent[p].wire, "validate") = <<"T", "r", "u", "e">>

\* C8: an invocation issues at most one HTTP request, whatever its outcome.
C8_AtMostOneRequest ==
    \A p \in Procs : httpCalls[p] <= 1

C8_Witness ==
    \E p \in Procs : /\ pc[p] = "done" /\ sent[p].method = "POST"
                     /\ outcome[p].exc = "requests.Timeout"
                     /\ httpCalls[p] = 1

\* C9: no request carries a field whose value is empty or null.
C9_NoEmptyFields ==
    \A p \in Procs :
        InFlight(p) =>
            \A i \in FieldStarts(sent[p].wire) :
                ValueAt(sent[p].wire, i) \notin {<<>>, <<"N", "o", "n", "e">>}

\* C10: the body of a POST is the serialization of the call's payload, and
\* the signature in its header is the one over the path, the nonce found in
\* that body and that very body, for each of the requests in flight.
C10_BodyIsSignedBody ==
    \A p \in Procs :
        (InFlight(p) /\ sent[p].method = "POST") =>
            /\ sent[p].wire = urlencode(data[p])
            /\ WireHas(sent[p].wire, "nonce")
            /\ sent[p].sig =
                 b64encode(hmac_sha512(b64decode(API_SECRET),
                     <<sent[p].path, sha256(WireValue(sent[p].wire, "nonce") \o sent[p].wire)>>))

C10_Witness ==
    \E p, q \in Procs :
        /\ p # q
        /\ InFlight(p) /\ sent[p].method = "POST"
        /\ InFlight(q) /\ sent[q].method = "POST"
        /\ sent[p].wire # sent[q].wire
        /\ sent[p].sig # sent[q].sig
        /\ Len(data[p]) > 2

====
